---- MODULE Spec2Model ----
(***************************************************************************)
(* Model of OCRMCQExtractor.parseMCQFromText and of the batch driver        *)
(* (processDirectory, main) of src/src/ocr-working.ts.                     *)
(* A text is a sequence of one-character strings; every regular expression *)
(* of the source is an operator that computes the match the expression     *)
(* yields (leftmost match, greedy and lazy quantifiers, lookaheads).       *)
(* Positions are 1-based; an "end" position is the position after the last *)
(* character of a match.                                                   *)
(***************************************************************************)
EXTENDS Naturals, Sequences, FiniteSets

VARIABLES
    text,                 \* parameter text: the raw OCR string
    filename,             \* parameter filename
    pc,                   \* position in parseMCQFromText
    cleanText,            \* let cleanText
    questionId,           \* const questionId
    idMatched,            \* questionIdMatch is not null
    textAfterQuestionId,  \* let textAfterQuestionId
    questionText,         \* let questionText
    strategy,             \* which body strategy assigned questionText (0: none)
    letter,               \* loop index of "for (const letter of optionPatterns)"
    options,              \* const options: MCQOption[]
    labeled,              \* options as they were when the labeled loop ended
    candidateTexts,       \* const candidateTexts: string[]
    result,               \* the returned MCQQuestion
    targetKind,           \* what targetDirectory names: "missing", "file", "directory"
    files,                \* the directory listing (fs.readdirSync)
    bpc,                  \* position in main / processDirectory
    pngFiles,             \* const pngFiles
    idx,                  \* position of "for (const file of pngFiles)", 1-based
    ocrCalls,             \* per listed PNG file, how often tesseract.recognize was called
    ocrResult,            \* per listed PNG file, how its OCR call ended
    inProgress,           \* the positions of the images whose iteration has begun and not ended
    questions,            \* const questions: MCQQuestion[]
    exitCode,             \* the status the process ends with
    written,              \* the output files written by main
    outputFile,           \* const outputFile (args[1])
    fileSystem            \* the files main has written: pairs of path and content

parserVars == <<text, filename, pc, cleanText, questionId, idMatched,
                textAfterQuestionId, questionText, strategy, letter, options,
                labeled, candidateTexts, result>>

batchVars == <<targetKind, files, bpc, pngFiles, idx, ocrCalls, ocrResult,
               inProgress, questions, exitCode, written, outputFile, fileSystem>>

vars == <<text, filename, pc, cleanText, questionId, idMatched,
          textAfterQuestionId, questionText, strategy, letter, options,
          labeled, candidateTexts, result, targetKind, files, bpc, pngFiles,
          idx, ocrCalls, ocrResult, inProgress, questions, exitCode, written,
          outputFile, fileSystem>>

(***************************************************************************)
(* Characters and strings                                                  *)
(***************************************************************************)
Chars(str) == [i \in 1..Len(str) |-> SubSeq(str, i, i)]

LowerAlphabet == Chars("abcdefghijklmnopqrstuvwxyz")
UpperAlphabet == Chars("ABCDEFGHIJKLMNOPQRSTUVWXYZ")
LowerSet == {LowerAlphabet[i] : i \in 1..26}
UpperSet == {UpperAlphabet[i] : i \in 1..26}
DigitSet == {"0", "1", "2", "3", "4", "5", "6", "7", "8", "9"}
SpaceSet == {" ", "\n", "\t", "\r"}

UpperOf == [c \in LowerSet |->
              UpperAlphabet[CHOOSE i \in 1..26 : LowerAlphabet[i] = c]]
LowerOf == [c \in UpperSet |->
              LowerAlphabet[CHOOSE i \in 1..26 : UpperAlphabet[i] = c]]

ToUpper(c) == IF c \in LowerSet THEN UpperOf[c] ELSE c
ToLower(c) == IF c \in UpperSet THEN LowerOf[c] ELSE c

IsSpace(c) == c \in SpaceSet                      \* \s
IsDigit(c) == c \in DigitSet                      \* \d
IsLetter(c) == c \in LowerSet \/ c \in UpperSet   \* [a-zA-Z]
IsWordChar(c) == IsLetter(c) \/ IsDigit(c) \/ c = "_"   \* \w
IsOptionLetter(c) == ToUpper(c) \in {"A", "B", "C", "D"}   \* [A-D] under /i
IsTerminator(c) == c \in {".", "!", "?"}          \* [.!?]

MinOf(S) == CHOOSE x \in S : \A y \in S : x <= y
MaxOf(S) == CHOOSE x \in S : \A y \in S : x >= y

\* s.substring(from - 1) in 1-based positions
From(s, i) == SubSeq(s, i, Len(s))

\* lit occurs in s at position i (case-sensitive)
LitAt(s, i, lit) ==
    /\ i >= 1
    /\ i + Len(lit) - 1 <= Len(s)
    /\ \A k \in 1..Len(lit) : s[i + k - 1] = lit[k]

\* lit occurs in s at position i under the /i flag
LitAtCI(s, i, lit) ==
    /\ i >= 1
    /\ i + Len(lit) - 1 <= Len(s)
    /\ \A k \in 1..Len(lit) : ToUpper(s[i + k - 1]) = ToUpper(lit[k])

\* String.prototype.includes
Includes(s, lit) == Len(lit) = 0 \/ \E i \in 1..Len(s) : LitAt(s, i, lit)

\* the position after the run of whitespace that starts at i (greedy \s*)
RECURSIVE SkipSpaces(_, _)
SkipSpaces(s, i) ==
    IF i <= Len(s) /\ IsSpace(s[i]) THEN SkipSpaces(s, i + 1) ELSE i

\* the start of the run of whitespace that ends right before q, not below c
RECURSIVE BackSpaces(_, _, _)
BackSpaces(s, c, q) ==
    IF q > c /\ IsSpace(s[q - 1]) THEN BackSpaces(s, c, q - 1) ELSE q

\* String.prototype.trim
Trim(s) ==
    LET first == SkipSpaces(s, 1)
    IN  SubSeq(s, first, BackSpaces(s, first, Len(s) + 1) - 1)

\* the characters of s at the positions lo..hi that are in keep, each mapped by
\* map (halved, so that the depth of the recursion stays logarithmic)
RECURSIVE Rebuild(_, _, _, _)
Rebuild(keep, map, lo, hi) ==
    IF lo > hi THEN <<>>
    ELSE IF lo = hi THEN (IF lo \in keep THEN <<map[lo]>> ELSE <<>>)
    ELSE LET mid == (lo + hi) \div 2
         IN  Rebuild(keep, map, lo, mid) \o Rebuild(keep, map, mid + 1, hi)

\* .replace(/\n+/g, ' ')
ReplaceNewlineRuns(s) ==
    LET keep == {i \in 1..Len(s) : s[i] # "\n" \/ i = 1 \/ s[i - 1] # "\n"}
        map == [i \in 1..Len(s) |-> IF s[i] = "\n" THEN " " ELSE s[i]]
    IN  Rebuild(keep, map, 1, Len(s))

\* .replace(/\s+/g, ' ')
CollapseWhitespace(s) ==
    LET keep == {i \in 1..Len(s) : ~IsSpace(s[i]) \/ i = 1 \/ ~IsSpace(s[i - 1])}
        map == [i \in 1..Len(s) |-> IF IsSpace(s[i]) THEN " " ELSE s[i]]
    IN  Rebuild(keep, map, 1, Len(s))

\* mutant: a vertical bar becomes a space and "I"
ReplaceBarsSpaced(s) ==
    LET keep == {j \in 1..(2 * Len(s)) : j % 2 = 0 \/ s[(j + 1) \div 2] = "|"}
        map == [j \in 1..(2 * Len(s)) |->
                   IF j % 2 = 1 THEN " "
                   ELSE IF s[j \div 2] = "|" THEN "I" ELSE s[j \div 2]]
    IN  Rebuild(keep, map, 1, 2 * Len(s))

\* mutant: a vertical bar becomes a lower-case "l"
ReplaceBarsByLowerL(s) == [i \in 1..Len(s) |-> IF s[i] = "|" THEN "l" ELSE s[i]]

\* .replace(/[|]/g, 'I')
ReplaceBars(s) == [i \in 1..Len(s) |-> IF s[i] = "|" THEN "I" ELSE s[i]]

\* the position after the run of non-letters that starts at i (greedy [^a-zA-Z]*)
RECURSIVE SkipNonLetters(_, _)
SkipNonLetters(s, i) ==
    IF i <= Len(s) /\ ~IsLetter(s[i]) THEN SkipNonLetters(s, i + 1) ELSE i

\* .replace(/^[^a-zA-Z]*/, '')
StripLeadingNonLetters(s) == From(s, SkipNonLetters(s, 1))

\* lines 35-39
Normalize(s) == Trim(ReplaceBars(CollapseWhitespace(ReplaceNewlineRuns(s))))

(***************************************************************************)
(* Question identifier, lines 41-55                                        *)
(***************************************************************************)
MinIdDigits == 2
MaxIdDigits == 4

\* the number of digits that start at position i
RECURSIVE DigitRun(_, _)
DigitRun(s, i) ==
    IF i <= Len(s) /\ IsDigit(s[i]) THEN 1 + DigitRun(s, i + 1) ELSE 0

\* [QE]\d{2,4}\b under /i matches at t; \b after the digits needs the run of
\* digits to end there and a non-word character, or the end, to follow
IdTokenAt(s, t) ==
    /\ t >= 1 /\ t <= Len(s)
    /\ ToUpper(s[t]) \in {"Q", "E"}
    /\ LET r == DigitRun(s, t + 1)
       IN  /\ r >= MinIdDigits /\ r <= MaxIdDigits
           /\ (t + r + 1 <= Len(s) => ~IsWordChar(s[t + r + 1]))

\* the positions at which /(?:^|\s)([QE]\d{2,4})\b/i can start a match
IdMatchStarts(s) ==
    {p \in 1..Len(s) : \/ p = 1 /\ IdTokenAt(s, 1)
                       \/ IsSpace(s[p]) /\ IdTokenAt(s, p + 1)}
\* mutant: the last match is taken, not the leftmost
IdTokenPosLast(s) == MaxOf(IdMatchStarts(s)) + 1

\* the token position of the leftmost match: (?:^|\s) consumed nothing or one
IdTokenPos(s) ==
    LET p == MinOf(IdMatchStarts(s))
    IN  IF p = 1 /\ IdTokenAt(s, 1) THEN 1 ELSE p + 1

HasIdToken(s) == IdMatchStarts(s) # {}

\* questionIdMatch[1]
IdToken(s) ==
    LET t == IdTokenPos(s) IN SubSeq(s, t, t + DigitRun(s, t + 1))

\* String.prototype.replace(lit, ''): the first occurrence only, case-sensitive
ReplaceFirst(s, lit) ==
    LET at == {i \in 1..Len(s) : LitAt(s, i, lit)}
    IN  IF at = {} THEN s
        ELSE SubSeq(s, 1, MinOf(at) - 1) \o From(s, MinOf(at) + Len(lit))

\* `Q_${filename.replace('.png', '')}`
FallbackId(f) == Chars("Q_") \o ReplaceFirst(f, Chars(".png"))

\* lines 42-44
QuestionIdOf(s, f) == IF HasIdToken(s) THEN IdToken(s) ELSE FallbackId(f)

\* lines 51-55: the text after the match of /(?:^|\s)([QE]\d{2,4})\b\.?\s*/i
AfterQuestionId(s) ==
    IF ~HasIdToken(s) THEN s
    ELSE LET t == IdTokenPos(s)
             e == t + DigitRun(s, t + 1) + 1
             d == IF e <= Len(s) /\ s[e] = "." THEN e + 1 ELSE e
         IN  From(s, SkipSpaces(s, d))

(***************************************************************************)
(* Question body, lines 57-101                                             *)
(***************************************************************************)
MinBodyLength == 50
FallbackLength == 500
MinFallbackLength == 50

\* \([A-D]\) under /i matches at q
ParenMarkerAt(s, q) ==
    /\ q >= 1 /\ q + 2 <= Len(s)
    /\ s[q] = "(" /\ IsOptionLetter(s[q + 1]) /\ s[q + 2] = ")"

\* [A-D][\)\.] under /i matches at q
LetterMarkerAt(s, q) ==
    /\ q >= 1 /\ q + 1 <= Len(s)
    /\ IsOptionLetter(s[q]) /\ s[q + 1] \in {")", "."}

\* the words, separated by \s+, match at q under /i
RECURSIVE PhraseAt(_, _, _)
PhraseAt(s, q, words) ==
    /\ LitAtCI(s, q, Head(words))
    /\ \/ Len(words) = 1
       \/ LET e == q + Len(Head(words))
          IN  /\ e <= Len(s) /\ IsSpace(s[e])
              /\ PhraseAt(s, SkipSpaces(s, e), Tail(words))

\* the literal phrases of optionStartPatterns, lines 62-65
OptionStartPhrases ==
    << <<Chars("Upload"), Chars("the"), Chars("data")>>,
       <<Chars("Use"), Chars("a"), Chars("subset")>>,
       <<Chars("Send"), Chars("the")>>,
       <<Chars("Create")>> >>

\* one of the six lookaheads (?=\s*X) of optionStartPatterns holds at p
OptionStartAt(s, p) ==
    LET q == SkipSpaces(s, p)
    IN  \/ ParenMarkerAt(s, q)
        \/ LetterMarkerAt(s, q)
        \/ \E k \in 1..Len(OptionStartPhrases) : PhraseAt(s, q, OptionStartPhrases[k])
\* mutant: the latest option-start signal is taken, not the earliest
QuestionEndLatest(s) ==
    LET at == {p \in 1..Len(s) : OptionStartAt(s, p)}
    IN  IF at = {} THEN Len(s) + 1 ELSE MaxOf(at)

\* lines 68-74, as a 1-based position: the least match index of the patterns
QuestionEnd(s) ==
    LET at == {p \in 1..Len(s) : OptionStartAt(s, p)}
    IN  IF at = {} THEN Len(s) + 1 ELSE MinOf(at)

\* line 76
BeforeOptions(s) == Trim(SubSeq(s, 1, QuestionEnd(s) - 1))
\* mutant: a lazy capture, which ends at the first "?"
QuestionWithFirstMark(s) ==
    LET marks == {i \in 1..Len(s) : s[i] = "?"}
    IN  IF marks = {} THEN <<>> ELSE Trim(SubSeq(s, 1, MinOf(marks)))

\* lines 83-85: /(.*\?)/s is greedy, the capture ends at the last "?"
QuestionWithMark(s) ==
    LET marks == {i \in 1..Len(s) : s[i] = "?"}
    IN  IF marks = {} THEN <<>> ELSE Trim(SubSeq(s, 1, MaxOf(marks)))

\* line 91
FallbackText(s) ==
    Trim(SubSeq(s, 1, IF Len(s) < FallbackLength THEN Len(s) ELSE FallbackLength))
\* mutant: the boundary result is accepted whenever it is not empty
BodyStrategyNoMinimum(s) ==
    IF Len(BeforeOptions(s)) > 0 THEN 1
    ELSE IF QuestionWithMark(s) # <<>> THEN 2
    ELSE IF Len(FallbackText(s)) > MinFallbackLength THEN 3
    ELSE 0

\* lines 76-95: which strategy assigns questionText
BodyStrategy(s) ==
    IF Len(BeforeOptions(s)) > MinBodyLength THEN 1
    ELSE IF QuestionWithMark(s) # <<>> THEN 2
    ELSE IF Len(FallbackText(s)) > MinFallbackLength THEN 3
    ELSE 0

RawBody(s) ==
    CASE BodyStrategy(s) = 1 -> BeforeOptions(s)
      [] BodyStrategy(s) = 2 -> QuestionWithMark(s)
      [] BodyStrategy(s) = 3 -> FallbackText(s)
      [] OTHER -> <<>>

\* lines 98-101
CleanBody(s) == Trim(CollapseWhitespace(StripLeadingNonLetters(s)))

QuestionTextOf(s) == CleanBody(RawBody(s))

(***************************************************************************)
(* Labeled options, lines 103-140                                          *)
(***************************************************************************)
MinOptionLength == 5
Letters == <<"A", "B", "C", "D">>

\* the least position >= c that holds one of the characters stop, else Len(s)+1
FirstOf(s, c, stop) ==
    LET at == {i \in c..Len(s) : s[i] \in stop}
    IN  IF at = {} THEN Len(s) + 1 ELSE MinOf(at)

\* \(L\)\s*([^\(]*?)(?=\s*\([A-D]\)|$) under /i, started at p: the capture
\* cannot cross a "(", so the lookahead holds at the next "(" or at the end
ParenCaptureAt(s, p) ==
    LET c == SkipSpaces(s, p + 3)
        q == FirstOf(s, c, {"("})
    IN  IF q = Len(s) + 1 THEN [ok |-> TRUE, cap |-> From(s, c)]
        ELSE IF ParenMarkerAt(s, q)
             THEN [ok |-> TRUE, cap |-> SubSeq(s, c, BackSpaces(s, c, q) - 1)]
        ELSE [ok |-> FALSE, cap |-> <<>>]

ParenCapture(s, L) ==
    LET at == {p \in 1..Len(s) :
                 /\ ParenMarkerAt(s, p) /\ ToUpper(s[p + 1]) = L
                 /\ ParenCaptureAt(s, p).ok}
    IN  IF at = {} THEN <<>> ELSE ParenCaptureAt(s, MinOf(at)).cap

\* \sL[\)\.]\s*([^A-D]*?)(?=\s*[A-D][\)\.]|$) under /i, started at p: the
\* capture cannot cross a letter a-d, so the lookahead holds at the next one
SpacedCaptureAt(s, p) ==
    LET c == SkipSpaces(s, p + 3)
        q == FirstOf(s, c, {"A", "B", "C", "D", "a", "b", "c", "d"})
    IN  IF q = Len(s) + 1 THEN [ok |-> TRUE, cap |-> From(s, c)]
        ELSE IF LetterMarkerAt(s, q)
             THEN [ok |-> TRUE, cap |-> SubSeq(s, c, BackSpaces(s, c, q) - 1)]
        ELSE [ok |-> FALSE, cap |-> <<>>]

SpacedCapture(s, L) ==
    LET at == {p \in 1..Len(s) :
                 /\ IsSpace(s[p]) /\ LetterMarkerAt(s, p + 1)
                 /\ ToUpper(s[p + 1]) = L
                 /\ SpacedCaptureAt(s, p).ok}
    IN  IF at = {} THEN <<>> ELSE SpacedCaptureAt(s, MinOf(at)).cap

\* L[\)\.]\s*([^\n]*?)(?=\s*[A-D][\)\.]|$) under /i: the capture is lazy, it
\* ends at the first position where the lookahead holds
LooseCaptureAt(s, p) ==
    LET c == SkipSpaces(s, p + 2)
        la == {j \in c..Len(s) : LetterMarkerAt(s, SkipSpaces(s, j))}
        j == IF la = {} THEN Len(s) + 1 ELSE MinOf(la)
    IN  IF \E i \in c..(j - 1) : s[i] = "\n"
        THEN [ok |-> FALSE, cap |-> <<>>]
        ELSE [ok |-> TRUE, cap |-> SubSeq(s, c, j - 1)]

LooseCapture(s, L) ==
    LET at == {p \in 1..Len(s) :
                 /\ LetterMarkerAt(s, p) /\ ToUpper(s[p]) = L
                 /\ LooseCaptureAt(s, p).ok}
    IN  IF at = {} THEN <<>> ELSE LooseCaptureAt(s, MinOf(at)).cap

\* lines 113-117, in the order of the array
Captures(s, L) == <<ParenCapture(s, L), SpacedCapture(s, L), LooseCapture(s, L)>>

\* mutant: a later capture of the same trimmed length replaces the kept one
RECURSIVE KeepLongestLatest(_, _, _)
KeepLongestLatest(caps, k, optionText) ==
    IF k > Len(caps) THEN optionText
    ELSE IF caps[k] # <<>> /\ Len(Trim(caps[k])) > 0
            /\ Len(Trim(caps[k])) >= Len(optionText)
         THEN KeepLongestLatest(caps, k + 1, Trim(caps[k]))
    ELSE KeepLongestLatest(caps, k + 1, optionText)

\* lines 119-125: a later capture replaces the kept one only when its trimmed
\* text is strictly longer
RECURSIVE KeepLongest(_, _, _)
KeepLongest(caps, k, optionText) ==
    IF k > Len(caps) THEN optionText
    ELSE IF caps[k] # <<>> /\ Len(Trim(caps[k])) > Len(optionText)
         THEN KeepLongest(caps, k + 1, Trim(caps[k]))
    ELSE KeepLongest(caps, k + 1, optionText)

\* lines 128-131
CleanOption(t) == Trim(StripLeadingNonLetters(CollapseWhitespace(t)))
\* mutant: the length filter of line 133 is left out
LabeledOptionAnyLength(s, L) ==
    LET optionText == KeepLongest(Captures(s, L), 1, <<>>)
        cleaned == CleanOption(optionText)
    IN  IF optionText # <<>> THEN <<[id |-> L, text |-> cleaned]>> ELSE <<>>

\* lines 119-139 for one letter: the options to push (none or one)
LabeledOption(s, L) ==
    LET optionText == KeepLongest(Captures(s, L), 1, <<>>)
        cleaned == CleanOption(optionText)
    IN  IF optionText # <<>> /\ Len(cleaned) > MinOptionLength
        THEN <<[id |-> L, text |-> cleaned]>>
        ELSE <<>>

(***************************************************************************)
(* Gap inference, lines 142-240                                            *)
(***************************************************************************)
MinBetweenLength == 50
MinChunkLength == 30
MinSentenceLength == 40
DedupPrefix == 30

\* the elements of a finite set of numbers, ascending
SortedSeq(S) ==
    [k \in 1..Cardinality(S) |->
        CHOOSE x \in S : Cardinality({y \in S : y < x}) = k - 1]

IdsOf(opts) == {opts[k].id : k \in 1..Len(opts)}
\* mutant: the found ids are not filtered out
MissingIdsUnfiltered(opts) == Letters

\* lines 146-147
MissingIds(opts) == SelectSeq(Letters, LAMBDA L : L \notin IdsOf(opts))

\* lines 159-160: the positions at which /\(id\)/i matches
MarkerPositions(s, id) ==
    {p \in 1..Len(s) : ParenMarkerAt(s, p) /\ ToUpper(s[p + 1]) = id}

\* lines 156-171: the first marker of every option that has one, by position
OptionPositions(s, opts) ==
    LET found == {k \in 1..Len(opts) : MarkerPositions(s, opts[k].id) # {}}
        start(k) == MinOf(MarkerPositions(s, opts[k].id))
        starts == SortedSeq({start(k) : k \in found})
    IN  [i \in 1..Len(starts) |->
            [id |-> ToUpper(s[starts[i] + 1]), start |-> starts[i],
             end |-> starts[i] + 3]]

\* line 190: the pieces of t between the matches of /[.!?]\s+/
Chunks(t) ==
    LET seps == SortedSeq({i \in 1..Len(t) - 1 :
                             IsTerminator(t[i]) /\ IsSpace(t[i + 1])})
        n == Len(seps)
    IN  [k \in 1..n + 1 |->
            SubSeq(t, IF k = 1 THEN 1 ELSE SkipSpaces(t, seps[k - 1] + 1),
                      IF k = n + 1 THEN Len(t) ELSE seps[k] - 1)]

ActionVerbs ==
    <<Chars("Use"), Chars("Send"), Chars("Create"), Chars("Build"),
      Chars("Configure"), Chars("Train"), Chars("Deploy"), Chars("Implement")>>

\* (?:Use|Send|Create|Build|Configure|Train|Deploy|Implement) under /i at q
ActionVerbAt(s, q) == \E k \in 1..Len(ActionVerbs) : LitAtCI(s, q, ActionVerbs[k])

\* lines 197-199
LooksLikeOption(chunk) ==
    \/ ActionVerbAt(chunk, 1)
    \/ Includes(chunk, Chars("Amazon"))
    \/ Includes(chunk, Chars("API"))

\* lines 182-204 for one pair of markers: the candidates to push (none or one)
BetweenCandidate(s, cur, next) ==
    LET betweenText == Trim(SubSeq(s, cur.end, next.start - 1))
        chunks == Chunks(betweenText)
        clean(k) == CollapseWhitespace(Trim(chunks[k]))
        valid == {k \in 1..Len(chunks) :
                    /\ Len(Trim(chunks[k])) > MinChunkLength
                    /\ LooksLikeOption(clean(k))}
    IN  IF Len(betweenText) > MinBetweenLength /\ valid # {}
        THEN <<clean(MinOf(valid))>>
        ELSE <<>>

\* lines 177-205
RECURSIVE BetweenCandidates(_, _, _)
BetweenCandidates(s, pos, i) ==
    IF i >= Len(pos) THEN <<>>
    ELSE BetweenCandidate(s, pos[i], pos[i + 1]) \o BetweenCandidates(s, pos, i + 1)

\* line 209: (?:^|\s) followed by an action verb matches at p
SentenceStartAt(s, p) ==
    \/ p = 1 /\ ActionVerbAt(s, 1)
    \/ p <= Len(s) /\ IsSpace(s[p]) /\ ActionVerbAt(s, p + 1)

\* the end of the match that starts at p: [^.!?]* is greedy and [.!?]? takes
\* the terminator that stopped it
SentenceEnd(s, p) ==
    LET t == FirstOf(s, p, {".", "!", "?"})
    IN  IF t = Len(s) + 1 THEN t ELSE t + 1

\* line 209: the matches of the /g expression, left to right, not overlapping
RECURSIVE SentencesFrom(_, _, _)
SentencesFrom(s, starts, pos) ==
    LET rest == {p \in starts : p >= pos}
    IN  IF rest = {} THEN <<>>
        ELSE LET p == MinOf(rest)
                 e == SentenceEnd(s, p)
             IN  <<SubSeq(s, p, e - 1)>> \o SentencesFrom(s, starts, e)

ActionSentences(s) ==
    SentencesFrom(s, {p \in 1..Len(s) : SentenceStartAt(s, p)}, 1)

\* .toLowerCase().substring(0, 30)
DedupKey(t) ==
    [i \in 1..(IF Len(t) < DedupPrefix THEN Len(t) ELSE DedupPrefix) |-> ToLower(t[i])]

\* mutant: no sentence counts as a duplicate
AlreadyFoundNever(opts, cands, cleanSentence) == FALSE

\* lines 215-217
AlreadyFound(opts, cands, cleanSentence) ==
    \/ \E k \in 1..Len(opts) : DedupKey(opts[k].text) = DedupKey(cleanSentence)
    \/ \E k \in 1..Len(cands) : DedupKey(cands[k]) = DedupKey(cleanSentence)

\* lines 211-222
RECURSIVE AddSentences(_, _, _, _)
AddSentences(opts, cands, sentences, k) ==
    IF k > Len(sentences) THEN cands
    ELSE LET cleanSentence == CollapseWhitespace(Trim(sentences[k]))
         IN  IF /\ ~AlreadyFound(opts, cands, cleanSentence)
                /\ Len(cleanSentence) > MinSentenceLength
             THEN AddSentences(opts, Append(cands, cleanSentence), sentences, k + 1)
             ELSE AddSentences(opts, cands, sentences, k + 1)

\* lines 174-223
CandidateTexts(s, opts) ==
    LET between == BetweenCandidates(s, OptionPositions(s, opts), 1)
    IN  IF Len(between) < Len(MissingIds(opts))
        THEN AddSentences(opts, between, ActionSentences(s), 1)
        ELSE between

\* lines 225-235
\* mutant: the candidates are assigned last to first
AssignedBackwards(opts, cands) ==
    LET missingIds == MissingIds(opts)
        n == IF Len(missingIds) < Len(cands) THEN Len(missingIds) ELSE Len(cands)
    IN  opts \o [i \in 1..n |-> [id |-> missingIds[i], text |-> cands[n + 1 - i]]]

\* mutant: the candidates replace the options found so far
AssignedAlone(opts, cands) ==
    LET missingIds == MissingIds(opts)
        n == IF Len(missingIds) < Len(cands) THEN Len(missingIds) ELSE Len(cands)
    IN  [i \in 1..n |-> [id |-> missingIds[i], text |-> cands[i]]]

Assigned(opts, cands) ==
    LET missingIds == MissingIds(opts)
        n == IF Len(missingIds) < Len(cands) THEN Len(missingIds) ELSE Len(cands)
    IN  opts \o [i \in 1..n |-> [id |-> missingIds[i], text |-> cands[i]]]
\* mutant: the sort of line 239 is left out
SortByIdOmitted(opts, k) == opts

\* line 239: a stable sort on the id
RECURSIVE SortById(_, _)
SortById(opts, k) ==
    IF k > Len(Letters) THEN SelectSeq(opts, LAMBDA o : o.id \notin {"A", "B", "C", "D"})
    ELSE SelectSeq(opts, LAMBDA o : o.id = Letters[k]) \o SortById(opts, k + 1)

\* lines 149-236: the candidates collected when some id is missing
CollectedTexts(s, opts) ==
    IF Len(MissingIds(opts)) > 0 THEN CandidateTexts(s, opts) ELSE <<>>

\* lines 143-240
InferredOptions(s, opts) == SortById(Assigned(opts, CollectedTexts(s, opts)), 1)

(***************************************************************************)
(* Validation and return value, lines 242-262                              *)
(***************************************************************************)
MinQuestionLength == 20
MinOptionCount == 2

\* the failure value of the catch block, line 261
Null == [null |-> TRUE]

\* lines 243-249: the two warnings (the Question is returned all the same)
BodyTooShort(q) == Len(q) = 0 \/ Len(q) < MinQuestionLength
TooFewOptions(opts) == Len(opts) < MinOptionCount
LowConfidence(q, opts) == BodyTooShort(q) \/ TooFewOptions(opts)

\* mutant: a Question that draws a warning is rejected
QuestionUnlessFlagged(id, f, q, opts, raw) ==
    IF LowConfidence(q, opts) THEN Null
    ELSE [questionId |-> id, filename |-> f, question |-> q, options |-> opts,
          rawText |-> raw]

\* mutant: rawText holds the normalized text
QuestionWithCleanRaw(id, f, q, opts, raw) ==
    [questionId |-> id, filename |-> f, question |-> q, options |-> opts,
     rawText |-> Normalize(raw)]

\* lines 251-257
QuestionOf(id, f, q, opts, raw) ==
    [questionId |-> id, filename |-> f, question |-> q, options |-> opts,
     rawText |-> raw]

\* lines 32-257: parseMCQFromText as one call
ParseMCQFromText(t, f) ==
    LET clean == Normalize(t)
        labeledOptions == LabeledOption(clean, "A") \o LabeledOption(clean, "B")
                          \o LabeledOption(clean, "C") \o LabeledOption(clean, "D")
    IN  QuestionOf(QuestionIdOf(clean, f), f, QuestionTextOf(AfterQuestionId(clean)),
                   IF Len(labeledOptions) < Len(Letters)
                   THEN InferredOptions(clean, labeledOptions) ELSE labeledOptions,
                   t)

(***************************************************************************)
(* File discovery, lines 266-267                                           *)
(***************************************************************************)
\* path.extname of a file name without directories: from the last "." on,
\* empty when there is no "." or the only one leads the name
ExtName(f) ==
    LET dots == {i \in 1..Len(f) : f[i] = "."}
    IN  IF dots = {} \/ MaxOf(dots) = 1 THEN <<>> ELSE From(f, MaxOf(dots))

\* path.extname(file).toLowerCase() === '.png'
IsPngFile(f) ==
    [i \in 1..Len(ExtName(f)) |-> ToLower(ExtName(f)[i])] = Chars(".png")

(***************************************************************************)
(* Inputs                                                                  *)
(***************************************************************************)
MaxPicked == 5
MaxNameParts == 3
MaxRawLen == 4

\* pieces of a scanned page, in page order; OCR may lose any of them
Fragments ==
    <<"Q302. ",
      "A developer wants to build an application for the survey team. ",
      "Which option meets the goal? Why? ",
      "(A) Option one long enough text ",
      "Use a subset of the survey data to train the model in less time. ",
      "(C) Send the results to Amazon for review. It helps. ",
      "(D) foo\n\n",
      " b) Deploy the |mage to the new host ",
      "(a) Implement unit tests for the whole service in the pipeline. ">>

RECURSIVE Concat(_, _)
Concat(strs, k) == IF k > Len(strs) THEN <<>> ELSE Chars(strs[k]) \o Concat(strs, k + 1)

\* the page with only the fragments picked left on it
PageOf(picked) ==
    Concat(SelectSeq([i \in 1..Len(Fragments) |-> IF i \in picked THEN Fragments[i] ELSE ""],
                     LAMBDA f : f # ""), 1)

PageTexts ==
    {PageOf(picked) : picked \in {P \in SUBSET (1..Len(Fragments)) : Cardinality(P) <= MaxPicked}}

EndToEndText ==
    Chars("Q302. A developer wants to build an application... over fifty chars long here (A) Option one long enough text (B) Option two long enough text (C) Option three long enough text (D) Option four long enough text")

ShortOptionsText == Chars("(A) foo (B) bar (C) baz (D) qux")

MissingLabelText ==
    Chars("Q302. A developer wants to build an application... over fifty chars long here (A) Use a subset of the survey data to train the model on the cloud. (C) Option three long enough text (D) Option four long enough text")

IdentifierTexts ==
    {Chars("See (Q302) for the figure"), Chars("e12 comes before Q302 here"),
     Chars("See (E45) and then Q302. What is shown"),
     Chars("q302: what is shown"), Chars("xQ302 Q12345 E77_ Q30A"),
     Chars("What is shown?")}

\* a body under 20 characters and a single option
ShortBodyText == Chars("Why? (A) Option one long enough text")

\* no body, a single option
NoBodyText == Chars("(A) Option one long enough text")

\* a body, no option
NoOptionText == Chars("What is shown?")

\* the first and the third label pattern capture texts of the same length for B
TieText == Chars("b. wxyz (B) qwerty")

ScenarioTexts ==
    {EndToEndText, ShortOptionsText, MissingLabelText, ShortBodyText, TieText}
        \cup IdentifierTexts

SampleName == Chars("sample.png")

NameParts == <<"scan", "a", ".png", ".PNG">>

\* the names made of at most MaxNameParts parts that file discovery accepts
FileNames ==
    LET names == UNION {[1..n -> 1..Len(NameParts)] : n \in 1..MaxNameParts}
    IN  {f \in {Concat([k \in DOMAIN nm |-> NameParts[nm[k]]], 1) : nm \in names} : IsPngFile(f)}

\* the texts parsed under every file name
NameTexts == {Chars("What is shown?"), Chars("Q12 What is shown?")}

\* the raw strings of at most MaxRawLen characters over a letter, a vertical
\* bar and the whitespace characters
RawAlphabet == {"a", "|", " ", "\n", "\t"}
RawTexts == UNION {[1..n -> RawAlphabet] : n \in 0..MaxRawLen}

(***************************************************************************)
(* Batch driver, lines 265-302 and 374-430                                 *)
(***************************************************************************)
MaxFiles == 3
MaxOcrCalls == 2
ExitSuccess == 0
ExitFailure == 1

\* the names a directory listing is drawn from
DirectoryNames == <<"a.png", "b.PNG", "c.png", "notes.txt", ".png">>

\* the listings: at most MaxFiles names, no name twice, in any order
Listings ==
    LET picks == UNION {[1..n -> 1..Len(DirectoryNames)] : n \in 0..MaxFiles}
        oneToOne == {pk \in picks : \A i, j \in DOMAIN pk : i # j => pk[i] # pk[j]}
    IN  {[k \in DOMAIN pk |-> Chars(DirectoryNames[pk[k]])] : pk \in oneToOne}

\* the texts the OCR engine may give for an image
OcrTexts == {EndToEndText, ShortBodyText, NoBodyText, NoOptionText}

\* parseMCQFromText on each of these texts under each of these names (a pure
\* function of its two arguments, tabulated)
Parsed ==
    [t \in OcrTexts, k \in 1..Len(DirectoryNames) |->
        ParseMCQFromText(t, Chars(DirectoryNames[k]))]

NameIndex(f) == CHOOSE k \in 1..Len(DirectoryNames) : Chars(DirectoryNames[k]) = f

\* how the OCR call of a listed file ended
NotRun == [status |-> "none", text |-> <<>>]
OcrFailed == [status |-> "failed", text |-> <<>>]
OcrOk(t) == [status |-> "ok", text |-> t]

\* mutant: the check is left out
ExistsSyncAlways(kind) == TRUE

\* line 379: fs.existsSync(targetDirectory)
ExistsSync(kind) == kind # "missing"

\* mutant: the listing is not filtered
PngFilesUnfiltered(fs) == fs

\* line 267
PngFiles(fs) == SelectSeq(fs, IsPngFile)

\* mutant: a Question that draws a warning is not collected
AcceptedUnlessFlagged(mcq) ==
    mcq # Null /\ Len(mcq.question) > 0 /\ Len(mcq.options) > 0
    /\ ~LowConfidence(mcq.question, mcq.options)

\* line 287: mcq && mcq.question && mcq.options.length > 0
Accepted(mcq) == mcq # Null /\ Len(mcq.question) > 0 /\ Len(mcq.options) > 0

\* mutant: the call is made again for the file that failed
RetryAfterFailure(i, n) == i

\* mutant: a failure ends the loop
AbortAfterFailure(i, n) == n + 1

\* lines 296-298: the catch block is inside the loop, which goes on with the
\* next of the n files
AfterFailure(i, n) == i + 1

\* mutant: the iteration is not awaited
IterationPending(inProg, i) == inProg

\* lines 277-299: the iteration of image i has ended
AfterIteration(inProg, i) == inProg \ {i}

\* mutant: the Question goes to the front of the list
CollectInFront(qs, mcq) == <<mcq>> \o qs

\* line 288: questions.push(mcq)
Collect(qs, mcq) == Append(qs, mcq)

\* the output file names given on the command line
OutputNames == <<"out.txt", "out.md", "out.TXT">>

\* /\.txt$/ matches the name
EndsWithTxt(f) == Len(f) >= 4 /\ SubSeq(f, Len(f) - 3, Len(f)) = Chars(".txt")

\* line 398: outputFile.replace(/\.txt$/, '.json')
JsonFileOf(f) ==
    IF EndsWithTxt(f) THEN SubSeq(f, 1, Len(f) - 4) \o Chars(".json") ELSE f

\* line 402: outputFile.replace(/\.txt$/, '.org.txt')
OrgFileOf(f) ==
    IF EndsWithTxt(f) THEN SubSeq(f, 1, Len(f) - 4) \o Chars(".org.txt") ELSE f

\* fs.writeFileSync(path, content): the file is created or replaced
WriteFile(fs, path, content) == {e \in fs : e[1] # path} \cup {<<path, content>>}

\* lines 394, 399 and 415, in that order
WrittenFiles(fs, f) ==
    WriteFile(WriteFile(WriteFile(fs, f, "report"), JsonFileOf(f), "json"),
              OrgFileOf(f), "raw")

\* lines 394-415: the text, JSON and raw OCR files
OutputFiles == {"txt", "json", "org"}

\* the batch driver at rest
BatchIdle ==
    /\ targetKind = "directory"
    /\ files = <<>>
    /\ bpc = "idle"
    /\ pngFiles = <<>>
    /\ idx = 1
    /\ ocrCalls = <<>>
    /\ ocrResult = <<>>
    /\ inProgress = {}
    /\ questions = <<>>
    /\ exitCode = ExitSuccess
    /\ written = {}
    /\ outputFile = <<>>
    /\ fileSystem = {}

\* the parser at rest
ParserIdle ==
    /\ text = <<>>
    /\ filename = <<>>
    /\ pc = "idle"
    /\ cleanText = <<>>
    /\ questionId = <<>>
    /\ idMatched = FALSE
    /\ textAfterQuestionId = <<>>
    /\ questionText = <<>>
    /\ strategy = 0
    /\ letter = 1
    /\ options = <<>>
    /\ labeled = <<>>
    /\ candidateTexts = <<>>
    /\ result = [questionId |-> <<>>, filename |-> <<>>, question |-> <<>>,
                 options |-> <<>>, rawText |-> <<>>]

(***************************************************************************)
(* parseMCQFromText as a state machine                                     *)
(***************************************************************************)
Init ==
    /\ \/ text \in PageTexts \cup ScenarioTexts \cup RawTexts /\ filename = SampleName
       \/ text \in NameTexts /\ filename \in FileNames
    /\ pc = "clean"
    /\ cleanText = <<>>
    /\ questionId = <<>>
    /\ idMatched = FALSE
    /\ textAfterQuestionId = <<>>
    /\ questionText = <<>>
    /\ strategy = 0
    /\ letter = 1
    /\ options = <<>>
    /\ labeled = <<>>
    /\ candidateTexts = <<>>
    /\ result = [questionId |-> <<>>, filename |-> <<>>, question |-> <<>>,
                 options |-> <<>>, rawText |-> <<>>]
    /\ BatchIdle

\* lines 35-39
CleanText ==
    /\ pc = "clean"
    /\ cleanText' = Normalize(text)
    /\ pc' = "id"
    /\ UNCHANGED batchVars
    /\ UNCHANGED <<text, filename, questionId, idMatched, textAfterQuestionId,
                   questionText, strategy, letter, options, labeled,
                   candidateTexts, result>>

\* lines 42-44
ExtractQuestionId ==
    /\ pc = "id"
    /\ idMatched' = HasIdToken(cleanText)
    /\ questionId' = QuestionIdOf(cleanText, filename)
    /\ pc' = "strip"
    /\ UNCHANGED batchVars
    /\ UNCHANGED <<text, filename, cleanText, textAfterQuestionId, questionText,
                   strategy, letter, options, labeled, candidateTexts, result>>

\* lines 51-55
StripQuestionId ==
    /\ pc = "strip"
    /\ textAfterQuestionId' = AfterQuestionId(cleanText)
    /\ pc' = "body"
    /\ UNCHANGED batchVars
    /\ UNCHANGED <<text, filename, cleanText, questionId, idMatched, questionText,
                   strategy, letter, options, labeled, candidateTexts, result>>

\* lines 57-101
ExtractQuestionText ==
    /\ pc = "body"
    /\ strategy' = BodyStrategy(textAfterQuestionId)
    /\ questionText' = QuestionTextOf(textAfterQuestionId)
    /\ pc' = "options"
    /\ UNCHANGED batchVars
    /\ UNCHANGED <<text, filename, cleanText, questionId, idMatched,
                   textAfterQuestionId, letter, options, labeled,
                   candidateTexts, result>>

\* lines 112-140: one pass of the loop over the letters
ExtractLabeledOption ==
    /\ pc = "options"
    /\ options' = options \o LabeledOption(cleanText, Letters[letter])
    /\ letter' = letter + 1
    /\ IF letter = Len(Letters)
       THEN pc' = "gap" /\ labeled' = options'
       ELSE pc' = "options" /\ labeled' = labeled
    /\ UNCHANGED batchVars
    /\ UNCHANGED <<text, filename, cleanText, questionId, idMatched,
                   textAfterQuestionId, questionText, strategy,
                   candidateTexts, result>>

\* lines 143-240: fewer than 4 labeled options
InferMissingOptions ==
    /\ pc = "gap"
    /\ Len(options) < Len(Letters)
    /\ candidateTexts' = CollectedTexts(cleanText, options)
    /\ options' = InferredOptions(cleanText, options)
    /\ pc' = "return"
    /\ UNCHANGED batchVars
    /\ UNCHANGED <<text, filename, cleanText, questionId, idMatched,
                   textAfterQuestionId, questionText, strategy, letter,
                   labeled, result>>

\* line 143: all 4 labeled options were found, the branch is skipped
SkipInference ==
    /\ pc = "gap"
    /\ ~(Len(options) < Len(Letters))
    /\ pc' = "return"
    /\ UNCHANGED batchVars
    /\ UNCHANGED <<text, filename, cleanText, questionId, idMatched,
                   textAfterQuestionId, questionText, strategy, letter, options,
                   labeled, candidateTexts, result>>

\* lines 251-257
ReturnQuestion ==
    /\ pc = "return"
    /\ result' = QuestionOf(questionId, filename, questionText, options, text)
    /\ pc' = "done"
    /\ UNCHANGED batchVars
    /\ UNCHANGED <<text, filename, cleanText, questionId, idMatched,
                   textAfterQuestionId, questionText, strategy, letter, options,
                   labeled, candidateTexts>>

Next ==
    \/ CleanText
    \/ ExtractQuestionId
    \/ StripQuestionId
    \/ ExtractQuestionText
    \/ ExtractLabeledOption
    \/ InferMissingOptions
    \/ SkipInference
    \/ ReturnQuestion

Spec == Init /\ [][Next]_vars

(***************************************************************************)
(* main and processDirectory as a state machine                            *)
(***************************************************************************)
BatchInit ==
    /\ ParserIdle
    /\ targetKind \in {"missing", "file", "directory"}
    /\ files \in (IF targetKind = "directory" THEN Listings ELSE {<<>>})
    /\ bpc = "main"
    /\ pngFiles = <<>>
    /\ idx = 1
    /\ ocrCalls = <<>>
    /\ ocrResult = <<>>
    /\ inProgress = {}
    /\ questions = <<>>
    /\ exitCode = ExitSuccess
    /\ written = {}
    /\ outputFile \in {Chars(OutputNames[k]) : k \in 1..Len(OutputNames)}
    /\ fileSystem = {}

\* lines 374-382: main up to the existence check
CheckDirectory ==
    /\ bpc = "main"
    /\ IF ExistsSync(targetKind)
       THEN bpc' = "list" /\ exitCode' = exitCode
       ELSE bpc' = "exited" /\ exitCode' = ExitFailure
    /\ UNCHANGED <<targetKind, files, pngFiles, idx, ocrCalls, ocrResult,
                   inProgress, questions, written>>
    /\ UNCHANGED <<outputFile, fileSystem>>
    /\ UNCHANGED parserVars

\* lines 266-275: the listing and its filter; readdirSync throws when the
\* target is not a directory, which the catch of main (lines 426-429) ends
\* with status 1
ListDirectory ==
    /\ bpc = "list"
    /\ IF targetKind # "directory"
       THEN /\ bpc' = "exited"
            /\ exitCode' = ExitFailure
            /\ UNCHANGED <<pngFiles, ocrCalls, ocrResult>>
       ELSE /\ pngFiles' = PngFiles(files)
            /\ ocrCalls' = [i \in 1..Len(pngFiles') |-> 0]
            /\ ocrResult' = [i \in 1..Len(pngFiles') |-> NotRun]
            /\ bpc' = IF Len(pngFiles') = 0 THEN "output" ELSE "ocr"
            /\ exitCode' = exitCode
    /\ UNCHANGED <<targetKind, files, idx, inProgress, questions, written>>
    /\ UNCHANGED <<outputFile, fileSystem>>
    /\ UNCHANGED parserVars

\* lines 277-281 and 19-25: the loop reaches a file and calls the OCR engine
StartOcr ==
    /\ bpc = "ocr"
    /\ idx <= Len(pngFiles)
    /\ ocrCalls[idx] < MaxOcrCalls
    /\ ocrCalls' = [ocrCalls EXCEPT ![idx] = @ + 1]
    /\ inProgress' = inProgress \cup {idx}
    /\ bpc' = "await"
    /\ UNCHANGED <<targetKind, files, pngFiles, idx, ocrResult, questions,
                   exitCode, written>>
    /\ UNCHANGED <<outputFile, fileSystem>>
    /\ UNCHANGED parserVars

\* lines 26 and 281-295: the OCR call gives a text, which is parsed and, when
\* the policy of line 287 accepts the Question, collected
OcrReturns ==
    /\ bpc = "await"
    /\ \E t \in OcrTexts :
          LET mcq == Parsed[t, NameIndex(pngFiles[idx])]
          IN  /\ ocrResult' = [ocrResult EXCEPT ![idx] = OcrOk(t)]
              /\ questions' = IF Accepted(mcq) THEN Collect(questions, mcq) ELSE questions
    /\ inProgress' = AfterIteration(inProgress, idx)
    /\ idx' = idx + 1
    /\ bpc' = IF idx' > Len(pngFiles) THEN "output" ELSE "ocr"
    /\ UNCHANGED <<targetKind, files, pngFiles, ocrCalls, exitCode, written>>
    /\ UNCHANGED <<outputFile, fileSystem>>
    /\ UNCHANGED parserVars

\* lines 27-29 and 296-298: the OCR call fails, the error is logged
OcrFails ==
    /\ bpc = "await"
    /\ ocrResult' = [ocrResult EXCEPT ![idx] = OcrFailed]
    /\ inProgress' = AfterIteration(inProgress, idx)
    /\ idx' = AfterFailure(idx, Len(pngFiles))
    /\ bpc' = IF idx' > Len(pngFiles) THEN "output" ELSE "ocr"
    /\ UNCHANGED <<targetKind, files, pngFiles, ocrCalls, questions, exitCode,
                   written>>
    /\ UNCHANGED <<outputFile, fileSystem>>
    /\ UNCHANGED parserVars

\* lines 301 and 390-424: processDirectory returns; main writes the output
\* files when a Question was collected
WriteOutput ==
    /\ bpc = "output"
    /\ written' = IF Len(questions) > 0 THEN OutputFiles ELSE {}
    /\ fileSystem' = IF Len(questions) > 0
                     THEN WrittenFiles(fileSystem, outputFile)
                     ELSE fileSystem
    /\ UNCHANGED outputFile
    /\ exitCode' = ExitSuccess
    /\ bpc' = "exited"
    /\ UNCHANGED <<targetKind, files, pngFiles, idx, ocrCalls, ocrResult,
                   inProgress, questions>>
    /\ UNCHANGED parserVars

BatchNext ==
    \/ CheckDirectory
    \/ ListDirectory
    \/ StartOcr
    \/ OcrReturns
    \/ OcrFails
    \/ WriteOutput

BatchSpec == BatchInit /\ [][BatchNext]_vars

\* every OCR call returns or fails, and the event loop then resumes the driver
BatchFair == BatchSpec /\ WF_vars(BatchNext)

(***************************************************************************)
(* Properties                                                              *)
(***************************************************************************)
OptionIds(opts) == [k \in 1..Len(opts) |-> opts[k].id]
LetterIndex(id) == CHOOSE k \in 1..Len(Letters) : Letters[k] = id
IdAssigned == pc \notin {"clean", "id"}
BodyAssigned == pc \notin {"clean", "id", "strip", "body"}
LabeledPassDone == pc \in {"gap", "return", "done"}
Returned == pc = "done"

\* C1: the end-to-end scenario string parses to questionId "Q302", exactly the
\* four options A, B, C, D in that order, and a body that holds no option text.
C1_EndToEnd ==
    (Returned /\ text = EndToEndText) =>
        /\ result.questionId = Chars("Q302")
        /\ OptionIds(result.options) = <<"A", "B", "C", "D">>
        /\ \A k \in 1..Len(result.options) :
              ~Includes(result.question, result.options[k].text)
        /\ ~Includes(result.question, Chars("Option"))
        /\ ~Includes(result.question, Chars("long enough text"))

C1_Witness ==
    /\ Returned /\ text = EndToEndText
    /\ Len(result.options) = 4
    /\ LitAt(result.question, 1, Chars("A developer wants"))

\* C2: in every state the options have ids among A, B, C, D, no id twice, so at
\* most 4 entries; the same holds of the options of the returned Question.
C2_UniqueIds ==
    \A opts \in {options, labeled, result.options} :
        /\ Len(opts) <= 4
        /\ \A k \in 1..Len(opts) : opts[k].id \in {"A", "B", "C", "D"}
        /\ \A j, k \in 1..Len(opts) : j # k => opts[j].id # opts[k].id

\* gap inference collected more candidates than there were missing letters
C2_Witness ==
    /\ Returned
    /\ Len(labeled) < 4
    /\ Len(candidateTexts) > 4 - Len(labeled)
    /\ Len(result.options) = 4

\* C3: once the extraction passes are over the options are in ascending order
\* of id, whether gap inference ran (and sorted) or was skipped.
C3_SortedById ==
    /\ pc \in {"return", "done"} =>
          \A j, k \in 1..Len(options) :
              j < k => LetterIndex(options[j].id) < LetterIndex(options[k].id)
    /\ Returned =>
          \A j, k \in 1..Len(result.options) :
              j < k => LetterIndex(result.options[j].id) < LetterIndex(result.options[k].id)

\* gap inference added an option whose id is below the id of a labeled option
C3_Witness ==
    /\ Returned
    /\ Len(labeled) < 4
    /\ \E j \in 1..Len(labeled) : \E k \in 1..Len(result.options) :
          /\ result.options[k].id \notin IdsOf(labeled)
          /\ LetterIndex(result.options[k].id) < LetterIndex(labeled[j].id)

\* C4: the boundary strategy gives the body exactly when the text before the
\* earliest option-start signal is longer than 50 characters trimmed; the body
\* is then that text (leading non-letters removed) and holds no parenthesised
\* letter; for "Q302. A developer wants ... (A) Use a subset..." it starts with
\* "A developer wants" and holds nothing from "(A)" on.
C4_BoundaryBody ==
    BodyAssigned =>
        LET s == textAfterQuestionId
            IsEarliest(e) ==
                /\ e = Len(s) + 1 \/ OptionStartAt(s, e)
                /\ \A p \in 1..(e - 1) : ~OptionStartAt(s, p)
            e == CHOOSE e \in 1..(Len(s) + 1) : IsEarliest(e)
            before == Trim(SubSeq(s, 1, e - 1))
        IN  /\ (strategy = 1) <=> (Len(before) > 50)
            /\ strategy = 1 =>
                  /\ questionText = CleanBody(before)
                  /\ \A q \in 1..Len(questionText) : ~ParenMarkerAt(questionText, q)
            /\ ( /\ strategy = 1
                 /\ LitAt(cleanText, 1, Chars("Q302. A developer wants"))
                 /\ Includes(cleanText, Chars("(A) Use a subset")) ) =>
                  /\ LitAt(questionText, 1, Chars("A developer wants"))
                  /\ ~Includes(questionText, Chars("(A)"))
                  /\ ~Includes(questionText, Chars("Use a subset"))

C4_Witness ==
    /\ Returned
    /\ strategy = 1
    /\ LitAt(cleanText, 1, Chars("Q302. A developer wants"))
    /\ Includes(cleanText, Chars("(A) Use a subset"))
    /\ Len(textAfterQuestionId) > Len(questionText) + 50

\* C5 as claimed: under the question-mark fallback the body is the prefix of the
\* text after the identifier that ends at the first "?".
C5_EndsAtFirstMark ==
    (BodyAssigned /\ strategy = 2) =>
        LET s == textAfterQuestionId
            first == CHOOSE i \in 1..Len(s) :
                        s[i] = "?" /\ \A j \in 1..(i - 1) : s[j] # "?"
        IN  questionText = CleanBody(Trim(SubSeq(s, 1, first)))

\* C5 amended: the question-mark fallback is used exactly when the boundary
\* strategy gave no body and the text after the identifier holds a "?"; the
\* body is then the prefix that ends at the last "?" (the capture is greedy),
\* with leading non-letters removed.
C5_EndsAtLastMark ==
    BodyAssigned =>
        LET s == textAfterQuestionId
            marked == \E i \in 1..Len(s) : s[i] = "?"
        IN  /\ (strategy = 2) <=> (strategy # 1 /\ marked)
            /\ strategy = 2 =>
                  \E i \in 1..Len(s) :
                      /\ s[i] = "?"
                      /\ \A j \in (i + 1)..Len(s) : s[j] # "?"
                      /\ questionText = CleanBody(Trim(SubSeq(s, 1, i)))

\* the fallback ran on a text with more than one "?"
C5_Witness ==
    /\ Returned
    /\ strategy = 2
    /\ Cardinality({i \in 1..Len(textAfterQuestionId) : textAfterQuestionId[i] = "?"}) > 1
    /\ Len(questionText) > 0
    /\ questionText[Len(questionText)] = "?"

\* one letter of {Q, E} and n digits stand at t, no word character follows
IdShapeAt(s, t, n) ==
    /\ t >= 1 /\ t + n <= Len(s)
    /\ s[t] \in {"Q", "q", "E", "e"}
    /\ \A k \in 1..n : s[t + k] \in DigitSet
    /\ n >= 2 /\ n <= 4
    /\ t + n + 1 <= Len(s) => ~IsWordChar(s[t + n + 1])

\* ... and a word boundary precedes it
BoundedIdAt(s, t, n) == IdShapeAt(s, t, n) /\ (t > 1 => ~IsWordChar(s[t - 1]))

\* ... and the start of the text or a whitespace character precedes it
AnchoredIdAt(s, t, n) == IdShapeAt(s, t, n) /\ (t > 1 => IsSpace(s[t - 1]))

\* C6 as claimed: the questionId is the first token bounded by word boundaries,
\* and it is "Q302" whenever "Q302" is such a token of the text.
C6_FirstBoundedToken ==
    IdAssigned =>
        LET s == cleanText
        IN  /\ \A t \in 1..Len(s) : \A n \in 2..4 :
                  ( /\ BoundedIdAt(s, t, n)
                    /\ \A u \in 1..(t - 1) : \A m \in 2..4 : ~BoundedIdAt(s, u, m) )
                  => questionId = SubSeq(s, t, t + n)
            /\ (\E t \in 1..Len(s) :
                  BoundedIdAt(s, t, 3) /\ SubSeq(s, t, t + 3) = Chars("Q302"))
                  => questionId = Chars("Q302")

\* C6 amended: the questionId is the first token that stands at the start of
\* the normalized text or right after a whitespace character, is one letter of
\* {Q, E} (either case) and 2-4 digits, and ends at a word boundary, in the case
\* it has in the text; it is "Q302" when "Q302" is the first such token; no such
\* token, no matched identifier.
C6_FirstAnchoredToken ==
    IdAssigned =>
        LET s == cleanText
            anchored == {t \in 1..Len(s) : \E n \in 2..4 : AnchoredIdAt(s, t, n)}
        IN  /\ idMatched <=> anchored # {}
            /\ \A t \in anchored : \A n \in 2..4 :
                  ( /\ AnchoredIdAt(s, t, n)
                    /\ \A u \in anchored : u >= t )
                  => /\ questionId = SubSeq(s, t, t + n)
                     /\ SubSeq(s, t, t + n) = Chars("Q302") => questionId = Chars("Q302")

\* a token bounded by word boundaries that is not the identifier precedes it
C6_Witness ==
    /\ Returned
    /\ idMatched
    /\ result.questionId = Chars("Q302")
    /\ \E t \in 1..Len(cleanText) : \E n \in 2..4 :
          /\ BoundedIdAt(cleanText, t, n)
          /\ SubSeq(cleanText, t, t + n) # Chars("Q302")

\* C7: without an identifier token the questionId is "Q_" and the file name
\* without its trailing ".png" extension (in any letter case).
C7_TrailingExtensionStripped ==
    (IdAssigned /\ ~idMatched /\ IsPngFile(filename)) =>
        questionId = Chars("Q_") \o SubSeq(filename, 1, Len(filename) - 4)

\* C8: without an identifier token, no other file name that file discovery
\* accepts gets the questionId synthesized for this one.
C8_Unambiguous ==
    (IdAssigned /\ ~idMatched /\ IsPngFile(filename)) =>
        \A g \in FileNames : g # filename => FallbackId(g) # questionId

\* C9 as claimed: labeled extraction on "(A) foo (B) bar (C) baz (D) qux" gives
\* the four options A "foo", B "bar", C "baz", D "qux".
C9_ShortTextsKept ==
    (LabeledPassDone /\ text = ShortOptionsText) =>
        labeled = <<[id |-> "A", text |-> Chars("foo")], [id |-> "B", text |-> Chars("bar")],
                    [id |-> "C", text |-> Chars("baz")], [id |-> "D", text |-> Chars("qux")]>>

\* C9 amended: labeled extraction on "(A) foo (B) bar (C) baz (D) qux" gives no
\* option, every text of at most 5 characters being discarded; on the four
\* labeled options of the end-to-end string, whose texts are longer, it gives
\* exactly the options A, B, C, D in that order, each text starting with the
\* labeled text.
C9_LongTextsKept ==
    LabeledPassDone =>
        /\ text = ShortOptionsText => labeled = <<>>
        /\ \A k \in 1..Len(labeled) : Len(labeled[k].text) > 5
        /\ text = EndToEndText =>
              /\ OptionIds(labeled) = <<"A", "B", "C", "D">>
              /\ LitAt(labeled[1].text, 1, Chars("Option one long enough text"))
              /\ LitAt(labeled[2].text, 1, Chars("Option two long enough text"))
              /\ LitAt(labeled[3].text, 1, Chars("Option three long enough text"))
              /\ LitAt(labeled[4].text, 1, Chars("Option four long enough text"))
              /\ \A k \in 1..4 : ~Includes(labeled[k].text, Chars(")"))

C9_Witness ==
    /\ pc = "gap"
    /\ text = ShortOptionsText
    /\ labeled = <<>>
    /\ \A k \in 1..4 : LooseCapture(cleanText, Letters[k]) # <<>>

\* the text between the first "(A)" and the first "(C)" after it, when the
\* normalized text has both and no other parenthesised letter between them
BlockAfterA(s) ==
    LET a == MarkerPositions(s, "A")
        c == {p \in MarkerPositions(s, "C") : a # {} /\ p > MinOf(a)}
    IN  IF a = {} \/ c = {} THEN <<>>
        ELSE IF \E q \in (MinOf(a) + 1)..(MinOf(c) - 1) : ParenMarkerAt(s, q) THEN <<>>
        ELSE Trim(SubSeq(s, MinOf(a) + 3, MinOf(c) - 1))

\* C10: with "(A)", "(C)" and "(D)" but no label for B, and the phrase "Use a
\* subset of the survey..." the only block between "(A)" and "(C)", the
\* returned options hold a B whose text is (a chunk of) that block and is not
\* the text captured for A.
C10_InferredBDiffersFromA ==
    ( /\ Returned
      /\ "B" \notin IdsOf(labeled)
      /\ {"A", "C", "D"} \subseteq IdsOf(labeled)
      /\ MarkerPositions(cleanText, "D") # {}
      /\ LitAt(BlockAfterA(cleanText), 1, Chars("Use a subset of the survey")) ) =>
        \E k \in 1..Len(result.options) :
            /\ result.options[k].id = "B"
            /\ \E i \in 1..Len(BlockAfterA(cleanText)) :
                  LitAt(BlockAfterA(cleanText), i, result.options[k].text)
            /\ \A j \in 1..Len(result.options) :
                  result.options[j].id = "A" =>
                      result.options[j].text # result.options[k].text

\* the options of opts, as a set
OptionSet(opts) == {opts[k] : k \in 1..Len(opts)}

\* C11: gap inference changes the options only when the labeled loop found
\* fewer than 4; every labeled option is in the returned Question with its id
\* and text unchanged, and every other returned option has a letter that no
\* labeled option has.
C11_LabeledOptionsKept ==
    /\ pc \in {"return", "done"} =>
          /\ OptionSet(labeled) \subseteq OptionSet(options)
          /\ Len(labeled) = 4 => options = labeled
          /\ \A o \in OptionSet(options) \ OptionSet(labeled) : o.id \notin IdsOf(labeled)
    /\ Returned =>
          /\ OptionSet(labeled) \subseteq OptionSet(result.options)
          /\ Len(labeled) = 4 => result.options = labeled
          /\ \A o \in OptionSet(result.options) \ OptionSet(labeled) :
                o.id \notin IdsOf(labeled)

\* gap inference added an option to the labeled ones
C11_Witness ==
    /\ Returned
    /\ Len(labeled) \in 1..3
    /\ Len(result.options) > Len(labeled)
    /\ OptionSet(labeled) \subseteq OptionSet(result.options)

\* C12: normalizing the normalized text gives the normalized text again.
C12_Idempotent ==
    pc # "clean" => Normalize(cleanText) = cleanText

\* the normalizer changed the raw text: whitespace runs, a newline and a bar
C12_Witness ==
    /\ pc = "id"
    /\ cleanText # text
    /\ \E i \in 1..Len(text) : text[i] = "\n"
    /\ \E i \in 1..Len(text) : text[i] = "|"
    /\ \E i \in 2..Len(text) : IsSpace(text[i]) /\ IsSpace(text[i - 1])
    /\ Len(cleanText) > 0

\* the characters of s that are not whitespace, each vertical bar as "I"
InkOf(s) ==
    LET ink == SelectSeq(s, LAMBDA c : ~IsSpace(c))
    IN  [i \in 1..Len(ink) |-> IF ink[i] = "|" THEN "I" ELSE ink[i]]

\* C13: the normalized text has no newline (its only whitespace character is
\* the space), no two spaces in a row, no whitespace at either end and no
\* vertical bar; its non-whitespace characters are those of the raw text in
\* the same order, each vertical bar having become "I".
C13_NormalForm ==
    pc # "clean" =>
        /\ \A i \in 1..Len(cleanText) : IsSpace(cleanText[i]) => cleanText[i] = " "
        /\ \A i \in 2..Len(cleanText) : ~(cleanText[i] = " " /\ cleanText[i - 1] = " ")
        /\ Len(cleanText) > 0 => ~IsSpace(cleanText[1]) /\ ~IsSpace(cleanText[Len(cleanText)])
        /\ \A i \in 1..Len(cleanText) : cleanText[i] # "|"
        /\ SelectSeq(cleanText, LAMBDA c : ~IsSpace(c)) = InkOf(text)

\* a raw text with whitespace at both ends, a tab and a bar was normalized
C13_Witness ==
    /\ pc = "id"
    /\ Len(text) > 2
    /\ IsSpace(text[1]) /\ IsSpace(text[Len(text)])
    /\ \E i \in 1..Len(text) : text[i] = "|"
    /\ \E i \in 1..Len(text) : text[i] = "\t"
    /\ \E i \in 1..Len(cleanText) : cleanText[i] = "I"

\* C14: every string parses to a Question, never to the failure value, also
\* when the body is empty or under 20 characters or fewer than 2 options were
\* found; the Question holds what the passes computed.
C14_LowConfidenceReturned ==
    Returned =>
        /\ result # Null
        /\ result = [questionId |-> questionId, filename |-> filename,
                     question |-> questionText, options |-> options,
                     rawText |-> text]
        /\ result = ParseMCQFromText(text, filename)

\* a Question with an empty body and no option was returned
C14_Witness ==
    /\ Returned
    /\ result # Null
    /\ result.question = <<>>
    /\ result.options = <<>>
    /\ LowConfidence(questionText, options)

\* a Question with a body under 20 characters and one option was returned
C14_WitnessShortBody ==
    /\ Returned
    /\ result # Null
    /\ Len(result.question) \in 1..19
    /\ Len(result.options) = 1

(***************************************************************************)
(* Properties of the batch driver                                          *)
(***************************************************************************)
\* processDirectory has filtered the listing
Listed == targetKind = "directory" /\ bpc \in {"ocr", "await", "output", "exited"}

\* the loop over the PNG files is over
LoopEnded == targetKind = "directory" /\ bpc \in {"output", "exited"}

\* the Questions collected for the file f
QuestionsOf(f) == {k \in 1..Len(questions) : questions[k].filename = f}

\* what parsing gave for the listed file at position i, whose OCR call returned
ParseOfFile(i) == Parsed[ocrResult[i].text, NameIndex(pngFiles[i])]

\* C15: when the loop is over every listed PNG file has been through its OCR
\* call, whether or not the call of another file failed, and every file whose
\* text parsed to a non-empty body with at least one option has its Question in
\* the list.
C15_FailureNotFatal ==
    LoopEnded =>
        \A i \in 1..Len(pngFiles) :
            /\ ocrCalls[i] >= 1
            /\ ocrResult[i].status \in {"ok", "failed"}
            /\ ( /\ ocrResult[i].status = "ok"
                 /\ ParseOfFile(i) # Null
                 /\ Len(ParseOfFile(i).question) > 0
                 /\ Len(ParseOfFile(i).options) > 0 ) =>
                   \E k \in 1..Len(questions) : questions[k] = ParseOfFile(i)

\* the OCR call of the first of three files failed, the two later files are in
\* the list
C15_Witness ==
    /\ LoopEnded
    /\ Len(pngFiles) = 3
    /\ ocrResult[1].status = "failed"
    /\ ocrResult[2].status = "ok" /\ ocrResult[3].status = "ok"
    /\ Len(questions) = 2
    /\ questions[1].filename = pngFiles[2]
    /\ questions[2].filename = pngFiles[3]

C17_OneAtATime ==
    /\ Cardinality(inProgress) <= 1
    /\ bpc = "await" => inProgress = {idx}
    /\ bpc # "await" => inProgress = {}
    /\ \A i \in 1..Len(ocrResult) :
          /\ i < idx => ocrResult[i].status # "none"
          /\ i > idx => ocrCalls[i] = 0 /\ ocrResult[i].status = "none"
          /\ (i = idx /\ bpc = "ocr") => ocrCalls[i] = 0

\* the OCR call of the second file is pending, the first file is done
C17_Witness ==
    /\ bpc = "await"
    /\ idx = 2
    /\ inProgress = {2}
    /\ ocrResult[1].status # "none"
    /\ ocrCalls[2] = 1

\* C18: no listed PNG file ever has more than one OCR call, and the run ends,
\* each listed PNG file then having had exactly one.
C18_OnceEachThenEnds ==
    /\ [](\A i \in 1..Len(ocrCalls) : ocrCalls[i] <= 1)
    /\ <>( /\ bpc = "exited"
           /\ targetKind = "directory" =>
                 /\ Len(ocrCalls) = Len(pngFiles)
                 /\ \A i \in 1..Len(pngFiles) : ocrCalls[i] = 1 )

\* the run ended after three files, one OCR call each, one of them failed
C18_Witness ==
    /\ bpc = "exited"
    /\ Len(pngFiles) = 3
    /\ \A i \in 1..3 : ocrCalls[i] = 1
    /\ \E i \in 1..3 : ocrResult[i].status = "failed"
    /\ \E i \in 1..3 : ocrResult[i].status = "ok"

\* C19: when no file of the listing has a .png extension the run has no OCR
\* call, collects nothing, writes nothing and ends with status 0.
C19_NoPngFiles ==
    (targetKind = "directory" /\ \A k \in 1..Len(files) : ~IsPngFile(files[k])) =>
        /\ bpc \notin {"ocr", "await"}
        /\ ocrCalls = <<>>
        /\ inProgress = {}
        /\ questions = <<>>
        /\ written = {}
        /\ exitCode = ExitSuccess

\* the run over a listing of two files, neither a PNG file, ended
C19_Witness ==
    /\ targetKind = "directory"
    /\ bpc = "exited"
    /\ Len(files) = 2
    /\ \A k \in 1..Len(files) : ~IsPngFile(files[k])
    /\ pngFiles = <<>>
    /\ questions = <<>>

\* C20: when the target directory does not exist main goes from the check
\* straight to its end with status 1: the directory is not read, no OCR call
\* is made and no file is written.
C20_MissingDirectoryFatal ==
    targetKind = "missing" =>
        /\ bpc \in {"main", "exited"}
        /\ bpc = "exited" => exitCode = ExitFailure
        /\ exitCode # ExitSuccess => bpc = "exited"
        /\ ocrCalls = <<>>
        /\ inProgress = {}
        /\ questions = <<>>
        /\ written = {}

\* main ended on the missing directory
C20_Witness ==
    /\ targetKind = "missing"
    /\ bpc = "exited"
    /\ exitCode = ExitFailure

(***************************************************************************)
(* Properties of the labeled pass and of gap inference                     *)
(***************************************************************************)
\* the explicit reduction: among the captures with a non-empty trimmed text,
\* the earliest of those whose trimmed text is longest
MaxByLength(caps) ==
    LET ok == {k \in 1..Len(caps) : caps[k] # <<>> /\ Len(Trim(caps[k])) > 0}
        longest == {k \in ok : \A j \in ok : Len(Trim(caps[j])) <= Len(Trim(caps[k]))}
    IN  IF ok = {} THEN <<>> ELSE Trim(caps[MinOf(longest)])

\* C22: for the letter the labeled loop is at, the text kept by the sequential
\* overwrite is the one the explicit reduction gives: the longest trimmed
\* capture of the three patterns, the earliest pattern winning a tie.
C22_KeepLongestIsMaxByLength ==
    (pc = "options" /\ letter <= Len(Letters)) =>
        KeepLongest(Captures(cleanText, Letters[letter]), 1, <<>>)
            = MaxByLength(Captures(cleanText, Letters[letter]))

\* two patterns captured different texts of the same trimmed length and the
\* text of the earlier pattern was kept
C22_Witness ==
    /\ pc = "options" /\ letter <= Len(Letters)
    /\ LET caps == Captures(cleanText, Letters[letter])
       IN  /\ \E j, k \in 1..Len(caps) :
                 /\ j < k
                 /\ caps[j] # <<>> /\ caps[k] # <<>>
                 /\ Trim(caps[j]) # Trim(caps[k])
                 /\ Len(Trim(caps[j])) = Len(Trim(caps[k]))
                 /\ KeepLongest(caps, 1, <<>>) = Trim(caps[j])
           /\ \A k \in 1..Len(caps) : Len(Trim(caps[k])) <= Len(KeepLongest(caps, 1, <<>>))

\* gap inference has run
InferenceRan == pc \in {"return", "done"} /\ Len(labeled) < Len(Letters)

\* the candidates of the between-marker pass
BetweenOf(s, opts) == BetweenCandidates(s, OptionPositions(s, opts), 1)

\* the position in the text of the first action-verb sentence whose cleaned
\* text is c (0 when there is none)
SentenceIndex(s, c) ==
    LET sentences == ActionSentences(s)
        at == {k \in 1..Len(sentences) : CollapseWhitespace(Trim(sentences[k])) = c}
    IN  IF at = {} THEN 0 ELSE MinOf(at)

\* C23: the options after gap inference are the labeled ones and, for i up to
\* min(missing letters, candidates), the i-th missing letter with the i-th
\* candidate, and no other; the candidates are those of the between-marker
\* pass in marker order followed by action-verb sentences in text order.
C23_AssignedInOrder ==
    InferenceRan =>
        LET missing == MissingIds(labeled)
            n == IF Len(missing) < Len(candidateTexts)
                 THEN Len(missing) ELSE Len(candidateTexts)
            between == BetweenOf(cleanText, labeled)
        IN  /\ Len(options) = Len(labeled) + n
            /\ \A i \in 1..Len(missing) - 1 :
                  LetterIndex(missing[i]) < LetterIndex(missing[i + 1])
            /\ OptionSet(options) \ OptionSet(labeled)
                  = {[id |-> missing[i], text |-> candidateTexts[i]] : i \in 1..n}
            /\ Len(between) <= Len(candidateTexts)
            /\ SubSeq(candidateTexts, 1, Len(between)) = between
            /\ \A k \in (Len(between) + 1)..Len(candidateTexts) :
                  /\ SentenceIndex(cleanText, candidateTexts[k]) > 0
                  /\ k > Len(between) + 1 =>
                        SentenceIndex(cleanText, candidateTexts[k - 1])
                            < SentenceIndex(cleanText, candidateTexts[k])

\* two letters were missing and got a between-marker candidate and then an
\* action-verb sentence
C23_Witness ==
    /\ Returned /\ Len(labeled) < Len(Letters)
    /\ Len(BetweenOf(cleanText, labeled)) >= 1
    /\ Len(candidateTexts) > Len(BetweenOf(cleanText, labeled))
    /\ Len(result.options) >= Len(labeled) + 2
    /\ candidateTexts[1] # candidateTexts[2]

\* C24: the action-verb scan runs only when the between-marker pass gave fewer
\* candidates than there are missing letters, and the first 30 characters of a
\* sentence it adds differ, letter case aside, from those of every labeled
\* option text and of every candidate collected before it.
C24_NoDuplicatePrefix ==
    InferenceRan =>
        LET between == BetweenOf(cleanText, labeled)
        IN  /\ Len(candidateTexts) > Len(between) =>
                  Len(between) < Len(MissingIds(labeled))
            /\ \A k \in (Len(between) + 1)..Len(candidateTexts) :
                  /\ \A j \in 1..Len(labeled) :
                        DedupKey(labeled[j].text) # DedupKey(candidateTexts[k])
                  /\ \A j \in 1..(k - 1) :
                        DedupKey(candidateTexts[j]) # DedupKey(candidateTexts[k])

\* the scan added a sentence and passed over a sentence, long enough, that
\* starts as a labeled option does
C24_Witness ==
    /\ Returned /\ Len(labeled) < Len(Letters)
    /\ Len(candidateTexts) > Len(BetweenOf(cleanText, labeled))
    /\ \E k \in 1..Len(ActionSentences(cleanText)) :
          LET c == CollapseWhitespace(Trim(ActionSentences(cleanText)[k]))
          IN  /\ Len(c) > MinSentenceLength
              /\ \E j \in 1..Len(labeled) : DedupKey(labeled[j].text) = DedupKey(c)
              /\ \A j \in 1..Len(candidateTexts) : candidateTexts[j] # c

\* C25: no two options of the returned Question have the same text.
C25_DistinctTexts ==
    Returned =>
        \A j, k \in 1..Len(result.options) :
            j # k => result.options[j].text # result.options[k].text

\* C26: the body and every option text of the returned Question are contiguous
\* parts of the normalized text, and rawText is the input string as given.
C26_NothingInvented ==
    Returned =>
        /\ Includes(cleanText, result.question)
        /\ \A k \in 1..Len(result.options) : Includes(cleanText, result.options[k].text)
        /\ result.rawText = text

\* a Question with a body, a labeled and an inferred option was returned for a
\* text that the normalizer changed
C26_Witness ==
    /\ Returned
    /\ cleanText # text
    /\ Len(result.question) > 0
    /\ Len(labeled) >= 1
    /\ Len(result.options) > Len(labeled)
    /\ result.rawText = text

\* C21: after a run that collected a Question the text report is at the output
\* path and the JSON document and the raw OCR dump are in two further files:
\* three files, each with its own content.
C21_ThreeSeparateFiles ==
    (bpc = "exited" /\ Len(questions) > 0) =>
        /\ Cardinality(fileSystem) = 3
        /\ <<outputFile, "report">> \in fileSystem
        /\ \E e \in fileSystem : e[1] # outputFile /\ e[2] = "json"
        /\ \E e \in fileSystem : e[1] # outputFile /\ e[2] = "raw"

\* the position of the name f in the directory listing
ListingIndex(f) == CHOOSE k \in 1..Len(files) : files[k] = f

\* C27: the list holds at most one Question per listed PNG file, each the
\* parse of the text of the file whose name it carries, and the Questions are
\* in the order of their files in the directory listing.
C27_OnePerFileInListingOrder ==
    Listed =>
        /\ Len(questions) <= Len(pngFiles)
        /\ \A k \in 1..Len(questions) :
              \E i \in 1..Len(pngFiles) :
                  /\ questions[k].filename = pngFiles[i]
                  /\ ocrResult[i].status = "ok"
                  /\ questions[k] = ParseOfFile(i)
        /\ \A j, k \in 1..Len(questions) :
              j # k => questions[j].filename # questions[k].filename
        /\ \A j, k \in 1..Len(questions) :
              j < k => ListingIndex(questions[j].filename)
                          < ListingIndex(questions[k].filename)

\* three PNG files, the second not collected, the two others in the list in
\* the order of the listing, which is not the alphabetical one
C27_Witness ==
    /\ LoopEnded
    /\ Len(pngFiles) = 3
    /\ pngFiles[1] = Chars("c.png") /\ pngFiles[3] = Chars("a.png")
    /\ Len(questions) = 2
    /\ questions[1].filename = Chars("c.png")
    /\ questions[2].filename = Chars("a.png")

====
